---- MODULE Spec2Model ----
(***************************************************************************)
(* Room acoustics driver (src/src/main.py): the Sabine RT60 calculation,   *)
(* the energy integration of the decay-curve plot, the main loop over the  *)
(* four room configurations, and the image-source enumerator and input     *)
(* validation of the simulation engine (acoustics.RoomAcoustics, which     *)
(* main.py imports).                                                       *)
(*                                                                         *)
(* Numbers.  Room dimensions and coordinates are integers (one length      *)
(* unit each).  An absorption coefficient is an integer count of           *)
(* 1/CoeffDen, so 0 is 0.0 and CoeffDen is 1.0; -1 and CoeffDen + 1 lie    *)
(* outside [0,1].  A real-valued result is an exact fraction               *)
(* [num, den] in lowest terms; floating-point rounding is not modelled.    *)
(***************************************************************************)
EXTENDS Integers, Sequences, FiniteSets, TLC

VARIABLES
    \* ---- calculate_rt60 called on its own
    room_dims,        \* argument room_dims
    abs_coeff,        \* argument abs_coeff: band -> sequence of coefficients
    surface_areas,    \* local surface_areas (line 27)
    rt60_results,     \* the returned dict
    rt_raised,        \* the exception calculate_rt60 raised, or "none"
    rt_pc,            \* "call" | "returned"
    \* ---- the energy integration of the decay plot
    response0,        \* response[0], the plotted impulse response
    energy,           \* local energy (line 72)
    en_pc,            \* "call" | "computed"
    \* ---- the image source enumerator
    en_dims, en_source, max_order, order, frontier, sources, enum_pc,
    \* ---- main
    pc,               \* the step main is about to execute
    room,             \* index into room_configs
    room_specs,       \* the loaded JSON of the current room
    acoustics_simulator,
    rt60_values,
    responses,
    stdout,           \* the lines printed so far
    figures,          \* the figures shown so far
    raised,           \* the exception that left main, or "none"
    log               \* the steps executed so far, <<room, step>>

rtVars   == <<room_dims, abs_coeff, surface_areas, rt60_results, rt_raised, rt_pc>>
edVars   == <<response0, energy, en_pc>>
enumVars == <<en_dims, en_source, max_order, order, frontier, sources, enum_pc>>
mainVars == <<pc, room, room_specs, acoustics_simulator, rt60_values, responses,
              stdout, figures, raised, log>>
vars     == <<rtVars, edVars, enumVars, mainVars>>

----------------------------------------------------------------------------
(* Bounds of the model *)

MaxDim == 3
CoeffDen == 1
MaxLen == 4
MaxSample == 1
MaxOrder == 3

(* Program constants *)

NumWalls == 6
NumRooms == 4

NoValue == "NoValue"
Bands == {"low", "mid", "high"}
BandOrder == <<"low", "mid", "high">>

----------------------------------------------------------------------------
(* Exact fractions *)

RECURSIVE GCD(_, _)
GCD(a, b) == IF b = 0 THEN a ELSE GCD(b, a % b)

Abs(x) == IF x < 0 THEN -x ELSE x

\* n / d in lowest terms with a positive denominator (d # 0)
Rat(n, d) ==
    LET g == GCD(Abs(n), Abs(d))
        s == IF d < 0 THEN -1 ELSE 1
    IN  [num |-> s * (n \div g), den |-> s * (d \div g)]

Zero == [num |-> 0, den |-> 1]

Min(a, b) == IF a < b THEN a ELSE b

----------------------------------------------------------------------------
(* RT60 calculation, main.py lines 9-33 *)

compute_room_volume_wrong(dims) == dims[1] * dims[2]

compute_room_volume(dims) == dims[1] * dims[2] * dims[3]

compute_surface_areas_wrong(dims) ==
    LET length == dims[1]  width == dims[2]  height == dims[3]
    IN  << length * width,  length * width,
           length * height, length * height,
           width * height,  length * height >>

compute_surface_areas(dims) ==
    LET length == dims[1]  width == dims[2]  height == dims[3]
    IN  << length * width,  length * width,     \* Floor & Ceiling
           length * height, length * height,    \* Front & Back Walls
           width * height,  width * height >>   \* Left & Right Walls

\* sum(area * alpha for area, alpha in zip(surface_areas, coeffs)), in units
\* of 1/CoeffDen: zip stops at the shorter of the two sequences
RECURSIVE ZipSum(_, _, _)
ZipSum(areas, coeffs, n) ==
    IF n = 0 THEN 0 ELSE ZipSum(areas, coeffs, n - 1) + areas[n] * coeffs[n]

total_absorption(areas, coeffs) ==
    ZipSum(areas, coeffs, Min(Len(areas), Len(coeffs)))

\* a division by zero, which raises ZeroDivisionError
DivByZero == [num |-> 1, den |-> 0]

\* 0.161 * (volume / total_absorption)
Sabine(volume, total) ==
    IF total = 0 THEN DivByZero
    ELSE Rat(161 * volume * CoeffDen, 1000 * total)

band_rt60_unguarded(volume, total) == Sabine(volume, total)

\* line 32: 0.161 * (volume / total_absorption) if total_absorption > 0 else 0
band_rt60(volume, total) ==
    IF total > 0 THEN Sabine(volume, total) ELSE Zero

\* The call's outcome: the exception raised ("none" when it returns) and the
\* returned dict.  Unpacking room_dims (lines 11, 16) raises ValueError unless it
\* holds exactly three values.
calculate_rt60(dims, coeff) ==
    IF Len(dims) # 3 THEN [exc |-> "ValueError", val |-> NoValue]
    ELSE LET volume  == compute_room_volume(dims)
             areas   == compute_surface_areas(dims)
             results == [band \in DOMAIN coeff |->
                            band_rt60(volume, total_absorption(areas, coeff[band]))]
         IN  IF \E band \in DOMAIN coeff : results[band] = DivByZero
             THEN [exc |-> "ZeroDivisionError", val |-> NoValue]
             ELSE [exc |-> "none", val |-> results]

\* inputs: one band's coefficients are 5, 6 or 7 entries, zero but for one wall;
\* the other bands have six equal coefficients
CoeffVals == -1 .. (CoeffDen + 1)
CoeffLens == (NumWalls - 1) .. (NumWalls + 1)
CoeffSeqs ==
    UNION { { [i \in 1..n |-> IF i = p THEN v ELSE 0] : p \in 1..n, v \in CoeffVals }
            : n \in CoeffLens }
UniformSeqs == { [i \in 1..NumWalls |-> v] : v \in CoeffVals }
Dims == 0 .. MaxDim

RtIdle ==
    /\ room_dims = NoValue /\ abs_coeff = NoValue /\ surface_areas = NoValue
    /\ rt60_results = NoValue /\ rt_raised = "none" /\ rt_pc = "idle"

RtInit ==
    /\ room_dims \in [1..3 -> Dims]
    /\ \E b \in Bands, s \in CoeffSeqs, u \in UniformSeqs :
          abs_coeff = [band \in Bands |-> IF band = b THEN s ELSE u]
    /\ surface_areas = NoValue
    /\ rt60_results = NoValue
    /\ rt_raised = "none"
    /\ rt_pc = "call"

----------------------------------------------------------------------------
(* Energy integration of the decay plot, main.py line 72 *)

RECURSIVE CumSum(_, _)
CumSum(x, t) == IF t = 0 THEN 0 ELSE CumSum(x, t - 1) + x[t]

Squares(x) == [j \in 1..Len(x) |-> x[j] * x[j]]

\* np.cumsum(response[0]**2)[::-1]: the running sums, then reversed
energy_decay(x) ==
    LET sq == Squares(x)  n == Len(x)
        cumsum == [t \in 1..n |-> CumSum(sq, t)]
    IN  [t \in 1..n |-> cumsum[n + 1 - t]]

Samples == (-MaxSample) .. MaxSample
ImpulseResponses == UNION { [1..n -> Samples] : n \in 1..MaxLen }

EdIdle == response0 = NoValue /\ energy = NoValue /\ en_pc = "idle"

EdInit == response0 \in ImpulseResponses /\ energy = NoValue /\ en_pc = "call"

----------------------------------------------------------------------------
(* Geometry Model and Image Source Enumerator of the engine (acoustics module) *)

Walls == 1 .. NumWalls            \* -x, +x, -y, +y, -z, +z
WallAxis(w) == (w + 1) \div 2     \* 1 = x (length), 2 = y (width), 3 = z (height)
WallFar(w)  == w % 2 = 0

\* area of a wall: the product of the two dimensions other than its axis
wall_plane_area(dims, w) ==
    LET a == WallAxis(w)
    IN  IF a = 1 THEN dims[2] * dims[3]
        ELSE IF a = 2 THEN dims[1] * dims[3]
        ELSE dims[1] * dims[2]

\* coordinate a of the point becomes 2*b - a; the others are unchanged
reflect_point(point, dims, w) ==
    LET a == WallAxis(w)
        b == IF WallFar(w) THEN dims[a] ELSE 0
    IN  [point EXCEPT ![a] = 2 * b - point[a]]

reflect_all_pruned(prev, dims) ==
    { [pos |-> reflect_point(vs.pos, dims, w), walls |-> Append(vs.walls, w)] :
        <<vs, w>> \in { p \in prev \X Walls :
                          \/ Len(p[1].walls) = 0
                          \/ p[1].walls[Len(p[1].walls)] # p[2] } }

\* order k: every order-(k-1) virtual source reflected across each of the 6 walls
reflect_all(prev, dims) ==
    { [pos |-> reflect_point(vs.pos, dims, w), walls |-> Append(vs.walls, w)] :
        vs \in prev, w \in Walls }

RealSource(source) == [pos |-> source, walls |-> <<>>]

EnumIdle ==
    /\ en_dims = NoValue /\ en_source = NoValue /\ max_order = 0 /\ order = 0
    /\ frontier = {} /\ sources = {} /\ enum_pc = "idle"

EnumInit ==
    /\ en_dims \in [1..3 -> 1..MaxDim]
    /\ en_source \in [1..3 -> 0..1]
    /\ max_order \in 0..MaxOrder
    /\ order = 0
    /\ frontier = { RealSource(en_source) }
    /\ sources = { RealSource(en_source) }
    /\ enum_pc = "run"

----------------------------------------------------------------------------
(* The engine's input validation and facade (acoustics module), and main,   *)
(* main.py lines 36-43 and 87-126                                            *)

room_configs == << "furnished_room.json", "empty_room.json",
                   "treated_big_room.json", "untreated_big_room.json" >>

ConfigKeys == {"room_dims", "source_positions", "receiver_positions",
               "abs_coeff", "max_order"}

FullAbsorption == [b \in Bands |-> [i \in 1..NumWalls |-> CoeffDen]]
NoAbsorption   == [b \in Bands |-> [i \in 1..NumWalls |-> 0]]

GoodRoom ==
    [ room_dims          |-> <<2, 2, 1>>,
      source_positions   |-> << <<1, 1, 0>> >>,
      receiver_positions |-> << <<0, 1, 1>> >>,
      abs_coeff          |-> FullAbsorption,
      max_order          |-> 1 ]

\* the contents a configuration file may hold
ConfigFiles ==
    { GoodRoom,
      [GoodRoom EXCEPT !.abs_coeff = NoAbsorption,
                       !.receiver_positions = << <<0, 1, 1>>, <<2, 0, 0>> >>],
      [GoodRoom EXCEPT !.source_positions = << >>],
      [GoodRoom EXCEPT !.receiver_positions = << >>],
      [GoodRoom EXCEPT !.room_dims = <<2, 0, 1>>],
      [GoodRoom EXCEPT !.room_dims = <<2, 2>>],
      [GoodRoom EXCEPT !.abs_coeff["low"][1] = CoeffDen + 1],
      [GoodRoom EXCEPT !.abs_coeff["mid"] = [i \in 1..(NumWalls - 1) |-> CoeffDen]],
      [GoodRoom EXCEPT !.source_positions = << <<3, 1, 0>> >>],
      [GoodRoom EXCEPT !.abs_coeff = [b \in {"low", "high"} |-> FullAbsorption[b]]],
      [k \in ConfigKeys \ {"max_order"} |-> GoodRoom[k]] }

\* with open(file_path) ... json.load(file): the parsed content of the file
load_room_specs(content) == content

InRoom(p, dims) ==
    /\ Len(p) = 3
    /\ \A a \in 1..3 : 0 <= p[a] /\ p[a] <= dims[a]

\* The engine's validation: the error kind of a configuration, or "none"
Validate(cfg) ==
    IF Len(cfg.source_positions) = 0 \/ Len(cfg.receiver_positions) = 0
        THEN "EmptyConfiguration"
    ELSE IF Len(cfg.room_dims) # 3 \/ \E a \in DOMAIN cfg.room_dims : cfg.room_dims[a] <= 0
        THEN "InvalidGeometry"
    ELSE IF \E b \in DOMAIN cfg.abs_coeff :
               \/ Len(cfg.abs_coeff[b]) # NumWalls
               \/ \E i \in DOMAIN cfg.abs_coeff[b] :
                     cfg.abs_coeff[b][i] < 0 \/ cfg.abs_coeff[b][i] > CoeffDen
        THEN "InvalidAbsorption"
    ELSE IF \E i \in DOMAIN cfg.source_positions :
               ~InRoom(cfg.source_positions[i], cfg.room_dims)
        THEN "OutOfBoundsPosition"
    ELSE IF \E i \in DOMAIN cfg.receiver_positions :
               ~InRoom(cfg.receiver_positions[i], cfg.room_dims)
        THEN "OutOfBoundsPosition"
    ELSE "none"

\* image_source_method: fails on an invalid configuration before any work, else
\* returns band -> one response per receiver, in receiver order
image_source_method(cfg) ==
    IF Validate(cfg) # "none" THEN [exc |-> Validate(cfg), val |-> NoValue]
    ELSE [exc |-> "none",
          val |-> [b \in DOMAIN cfg.abs_coeff |->
                     [r \in 1..Len(cfg.receiver_positions) |-> "impulse_response"]]]

\* rt60 formatted with :.3f, as a count of thousandths (ties rounded up)
Format3f(r) == (2000 * r.num + r.den) \div (2 * r.den)

\* lines 120-122: the header, then one line per band in the dict's order
printed_lines(file, values) ==
    LET bands == SelectSeq(BandOrder, LAMBDA b : b \in DOMAIN values)
    IN  << <<"header", file>> >> \o
        [i \in 1..Len(bands) |-> <<bands[i], Format3f(values[bands[i]])>>]

\* plot_responses_and_rt60: what it raises, or "none"
plot_raises(resp, values) ==
    IF \E b \in DOMAIN resp : Len(resp[b]) = 0 THEN "IndexError"      \* response[0]
    ELSE IF ~(Bands \subseteq DOMAIN values) THEN "KeyError"           \* line 63
    ELSE "none"

MainInit ==
    /\ pc = "load" /\ room = 1
    /\ room_specs = NoValue /\ acoustics_simulator = NoValue
    /\ rt60_values = NoValue /\ responses = NoValue
    /\ stdout = << >> /\ figures = << >> /\ raised = "none" /\ log = << >>

MainIdle ==
    /\ pc = "idle" /\ room = 1
    /\ room_specs = NoValue /\ acoustics_simulator = NoValue
    /\ rt60_values = NoValue /\ responses = NoValue
    /\ stdout = << >> /\ figures = << >> /\ raised = "none" /\ log = << >>

\* an exception leaves main: nothing catches it
Raise(e) == pc' = "raised" /\ raised' = e

Step(name) == log' = Append(log, <<room, name>>)

\* line 102: the file cannot be opened, or its content is loaded
Load ==
    /\ pc = "load"
    /\ Step("load")
    /\ \/ Raise("FileNotFoundError") /\ UNCHANGED room_specs
       \/ \E content \in ConfigFiles :
             /\ room_specs' = load_room_specs(content)
             /\ pc' = "construct" /\ UNCHANGED raised
    /\ UNCHANGED <<room, acoustics_simulator, rt60_values, responses, stdout, figures>>
    /\ UNCHANGED <<rtVars, edVars, enumVars>>

\* lines 105-111: each room_specs[...] raises KeyError on a missing key
Construct ==
    /\ pc = "construct"
    /\ Step("construct")
    /\ IF ~(ConfigKeys \subseteq DOMAIN room_specs)
       THEN Raise("KeyError") /\ UNCHANGED acoustics_simulator
       ELSE /\ acoustics_simulator' = [k \in ConfigKeys |-> room_specs[k]]
            /\ pc' = "rt60" /\ UNCHANGED raised
    /\ UNCHANGED <<room, room_specs, rt60_values, responses, stdout, figures>>
    /\ UNCHANGED <<rtVars, edVars, enumVars>>

\* a variant that catches the error of calculate_rt60, substitutes zeros and goes on
ComputeRT60_swallow ==
    /\ pc = "rt60"
    /\ Step("rt60")
    /\ LET r == calculate_rt60(room_specs.room_dims, room_specs.abs_coeff)
       IN  /\ rt60_values' = IF r.exc # "none" THEN [b \in Bands |-> Zero] ELSE r.val
           /\ pc' = "print" /\ UNCHANGED raised
    /\ UNCHANGED <<room, room_specs, acoustics_simulator, responses, stdout, figures>>
    /\ UNCHANGED <<rtVars, edVars, enumVars>>

\* lines 114-117
ComputeRT60 ==
    /\ pc = "rt60"
    /\ Step("rt60")
    /\ LET r == calculate_rt60(room_specs.room_dims, room_specs.abs_coeff)
       IN  IF r.exc # "none"
           THEN Raise(r.exc) /\ UNCHANGED rt60_values
           ELSE rt60_values' = r.val /\ pc' = "print" /\ UNCHANGED raised
    /\ UNCHANGED <<room, room_specs, acoustics_simulator, responses, stdout, figures>>
    /\ UNCHANGED <<rtVars, edVars, enumVars>>

\* lines 120-122
PrintRT60 ==
    /\ pc = "print"
    /\ Step("print")
    /\ stdout' = stdout \o printed_lines(room_configs[room], rt60_values)
    /\ pc' = "simulate"
    /\ UNCHANGED <<room, room_specs, acoustics_simulator, rt60_values, responses,
                   figures, raised>>
    /\ UNCHANGED <<rtVars, edVars, enumVars>>

\* a variant that catches the engine's error and plots an empty result
Simulate_swallow ==
    /\ pc = "simulate"
    /\ Step("simulate")
    /\ LET r == image_source_method(acoustics_simulator)
       IN  /\ responses' = IF r.exc # "none"
                           THEN [b \in Bands |-> << >>] ELSE r.val
           /\ pc' = "plot" /\ UNCHANGED raised
    /\ UNCHANGED <<room, room_specs, acoustics_simulator, rt60_values, stdout, figures>>
    /\ UNCHANGED <<rtVars, edVars, enumVars>>

\* line 125: simulate_acoustics(acoustics_simulator)
Simulate ==
    /\ pc = "simulate"
    /\ Step("simulate")
    /\ LET r == image_source_method(acoustics_simulator)
       IN  IF r.exc # "none"
           THEN Raise(r.exc) /\ UNCHANGED responses
           ELSE responses' = r.val /\ pc' = "plot" /\ UNCHANGED raised
    /\ UNCHANGED <<room, room_specs, acoustics_simulator, rt60_values, stdout, figures>>
    /\ UNCHANGED <<rtVars, edVars, enumVars>>

\* line 126, then the next config_file of the for loop
Plot ==
    /\ pc = "plot"
    /\ Step("plot")
    /\ IF plot_raises(responses, rt60_values) # "none"
       THEN /\ Raise(plot_raises(responses, rt60_values))
            /\ UNCHANGED <<room, figures>>
       ELSE /\ figures' = figures \o
                  << <<"Impulse Response", room>>, <<"RT60", room>>,
                     <<"Energy Decay Curve", room>> >>
            /\ IF room = NumRooms
               THEN pc' = "done" /\ UNCHANGED room
               ELSE pc' = "load" /\ room' = room + 1
            /\ UNCHANGED raised
    /\ UNCHANGED <<room_specs, acoustics_simulator, rt60_values, responses, stdout>>
    /\ UNCHANGED <<rtVars, edVars, enumVars>>

----------------------------------------------------------------------------
(* The functions called on their own *)

CalculateRT60 ==
    /\ rt_pc = "call"
    /\ surface_areas' = IF Len(room_dims) = 3
                        THEN compute_surface_areas(room_dims) ELSE NoValue
    /\ LET r == calculate_rt60(room_dims, abs_coeff)
       IN  rt60_results' = r.val /\ rt_raised' = r.exc
    /\ rt_pc' = "returned"
    /\ UNCHANGED <<room_dims, abs_coeff>>
    /\ UNCHANGED <<edVars, enumVars, mainVars>>

EnergyDecay ==
    /\ en_pc = "call"
    /\ energy' = energy_decay(response0)
    /\ en_pc' = "computed"
    /\ UNCHANGED response0
    /\ UNCHANGED <<rtVars, enumVars, mainVars>>

EnumerateOrder ==
    /\ enum_pc = "run" /\ order < max_order
    /\ frontier' = reflect_all(frontier, en_dims)
    /\ sources' = sources \cup frontier'
    /\ order' = order + 1
    /\ UNCHANGED <<en_dims, en_source, max_order, enum_pc>>
    /\ UNCHANGED <<rtVars, edVars, mainVars>>

EnumerateDone ==
    /\ enum_pc = "run" /\ order = max_order
    /\ enum_pc' = "done"
    /\ UNCHANGED <<en_dims, en_source, max_order, order, frontier, sources>>
    /\ UNCHANGED <<rtVars, edVars, mainVars>>

----------------------------------------------------------------------------
(* Specifications *)

Init == MainInit /\ RtIdle /\ EdIdle /\ EnumIdle
Next == Load \/ Construct \/ ComputeRT60 \/ PrintRT60 \/ Simulate \/ Plot
Spec == Init /\ [][Next]_vars

InitRT60 == RtInit /\ MainIdle /\ EdIdle /\ EnumIdle
NextRT60 == CalculateRT60
SpecRT60 == InitRT60 /\ [][NextRT60]_vars

InitEnergy == EdInit /\ MainIdle /\ RtIdle /\ EnumIdle
NextEnergy == EnergyDecay
SpecEnergy == InitEnergy /\ [][NextEnergy]_vars

InitEnum == EnumInit /\ MainIdle /\ RtIdle /\ EdIdle
NextEnum == EnumerateOrder \/ EnumerateDone
SpecEnum == InitEnum /\ [][NextEnum]_vars

----------------------------------------------------------------------------
(* Properties of calculate_rt60, checked under SpecRT60 *)

PositiveDims == \A a \in 1..3 : room_dims[a] > 0

RECURSIVE SumWalls(_, _, _)
SumWalls(areas, coeffs, S) ==
    IF S = {} THEN 0
    ELSE LET i == CHOOSE j \in S : TRUE
         IN  areas[i] * coeffs[i] + SumWalls(areas, coeffs, S \ {i})

\* the total absorption of a band over the walls it has coefficients for
BandTotal(band) ==
    SumWalls(surface_areas, abs_coeff[band], Walls \cap DOMAIN abs_coeff[band])

\* 0.161 * length * width * height / total, for total > 0
IsSabine(value, total) ==
    /\ value.den > 0
    /\ value.num * 1000 * total =
          161 * room_dims[1] * room_dims[2] * room_dims[3] * CoeffDen * value.den

\* C1: for positive dimensions, calculate_rt60 returns one entry per band of
\* abs_coeff and no others, and for every band with a coefficient for each of the
\* 6 walls and a total absorption > 0 the entry is exactly
\* 0.161 * (length*width*height) / total_absorption.
C1_SabineFormula ==
    (rt_pc = "returned" /\ PositiveDims) =>
        /\ rt_raised = "none"
        /\ DOMAIN rt60_results = DOMAIN abs_coeff
        /\ \A band \in DOMAIN abs_coeff :
              (Len(abs_coeff[band]) >= NumWalls /\ BandTotal(band) > 0)
                  => IsSabine(rt60_results[band], BandTotal(band))

C1_Witness ==
    /\ rt_pc = "returned" /\ PositiveDims
    /\ room_dims[1] # room_dims[2] /\ room_dims[2] # room_dims[3]
    /\ \E band \in DOMAIN abs_coeff :
          /\ Len(abs_coeff[band]) = NumWalls /\ BandTotal(band) > 0
          /\ rt60_results[band] # Zero

\* C2: the area compute_surface_areas puts at index i is the area of wall i of the
\* wall order -x, +x, -y, +y, -z, +z (the product of the two dimensions other than
\* the wall's axis), so every coefficient is multiplied by the area of its own wall.
C2_AreasFollowWallOrder ==
    (rt_pc = "returned" /\ PositiveDims) =>
        \A i \in Walls : surface_areas[i] = wall_plane_area(room_dims, i)

\* C3: for positive dimensions compute_surface_areas returns exactly 6 areas, their
\* sum is 2(lw + lh + wh), and each of the faces lw, lh, wh is there exactly twice.
C3_SurfaceAreas ==
    (rt_pc = "returned" /\ PositiveDims) =>
        LET l == room_dims[1]  w == room_dims[2]  h == room_dims[3]
            faces == <<l * w, l * h, w * h>>
            Count(s, v) == Cardinality({ i \in DOMAIN s : s[i] = v })
        IN  /\ Len(surface_areas) = 6
            /\ SumWalls(surface_areas, [i \in 1..6 |-> 1], 1..6)
                  = 2 * (l * w + l * h + w * h)
            /\ \A v \in { faces[k] : k \in 1..3 } :
                  Count(surface_areas, v) = 2 * Count(faces, v)

C3_Witness ==
    /\ rt_pc = "returned" /\ PositiveDims
    /\ Cardinality({ surface_areas[i] : i \in DOMAIN surface_areas }) = 3

BadBand(coeffs) ==
    \/ Len(coeffs) # NumWalls
    \/ \E i \in DOMAIN coeffs : coeffs[i] < 0 \/ coeffs[i] > CoeffDen

\* C6: a band that does not hold exactly 6 coefficients, or holds one outside
\* [0,1], is rejected with InvalidAbsorption and no RT60 value is produced for it.
C6_InvalidAbsorptionRejected ==
    (rt_pc = "returned" /\ PositiveDims) =>
        \A band \in DOMAIN abs_coeff :
            BadBand(abs_coeff[band]) => rt_raised = "InvalidAbsorption"

\* what a band's entry is, from that band's coefficients alone
IsBandValue(value, total) ==
    IF total > 0 THEN IsSabine(value, total) ELSE value = Zero

\* C9: calculate_rt60 never divides by zero: it does not raise, the entry of every
\* band whose total absorption is not > 0 is 0, and every other band's entry is what
\* that band's own coefficients give.
C9_NoDivisionByZero ==
    rt_pc = "returned" =>
        /\ rt_raised = "none"
        /\ \A band \in DOMAIN abs_coeff :
              BandTotal(band) <= 0 =>
                  /\ rt60_results[band] = Zero
                  /\ \A other \in DOMAIN abs_coeff \ {band} :
                        IsBandValue(rt60_results[other], BandTotal(other))

C9_Witness ==
    /\ rt_pc = "returned" /\ PositiveDims
    /\ \E band, other \in DOMAIN abs_coeff :
          /\ BandTotal(band) = 0 /\ rt60_results[band] = Zero
          /\ BandTotal(other) > 0 /\ rt60_results[other] # Zero

----------------------------------------------------------------------------
(* Property of the decay plot's energy, checked under SpecEnergy *)

RECURSIVE SumSquares(_, _, _)
SumSquares(x, from, to) ==
    IF from > to THEN 0 ELSE x[from] * x[from] + SumSquares(x, from + 1, to)

\* C4: the energy at sample t is the sum of x[j]^2 for j from t to the last sample.
C4_EnergyIsSumFromEnd ==
    en_pc = "computed" =>
        /\ Len(energy) = Len(response0)
        /\ \A t \in 1..Len(response0) :
              energy[t] = SumSquares(response0, t, Len(response0))

----------------------------------------------------------------------------
(* Property of the enumerator, checked under SpecEnum *)

\* C7 as stated: max_order = k > 0 yields 1 + 6*(5^k - 1)/4 virtual sources when
\* every source is reflected across each of the 6 walls, and max_order = 0 yields one.
C7_PrunedCountFormula ==
    enum_pc = "done" =>
        Cardinality(sources) =
            IF max_order = 0 THEN 1 ELSE 1 + (6 * (5 ^ max_order - 1)) \div 4

\* C7 amended: max_order = k yields 1 + 6 + ... + 6^k = (6^(k+1) - 1)/5 virtual
\* sources, 6^j of them of order j, and the real source alone for k = 0.
C7_UnprunedCount ==
    enum_pc = "done" =>
        /\ Cardinality(sources) = (6 ^ (max_order + 1) - 1) \div 5
        /\ \A j \in 0..max_order :
              Cardinality({ vs \in sources : Len(vs.walls) = j }) = 6 ^ j
        /\ max_order = 0 => sources = { RealSource(en_source) }

C7_Witness ==
    enum_pc = "done" /\ max_order = 2 /\ Cardinality(sources) = 43

----------------------------------------------------------------------------
(* Properties of main, checked under Spec *)

StepOrder == <<"load", "construct", "rt60", "print", "simulate", "plot">>

\* the step was executed for the current room
Executed(name) == \E i \in DOMAIN log : log[i] = <<room, name>>

\* the invalid rooms: a non-positive dimension, a coefficient outside [0,1] or a
\* wrong coefficient count, no sources or no receivers, a position out of bounds
InvalidRoom(cfg) == Len(cfg.room_dims) = 3 /\ Validate(cfg) # "none"

\* C5: an invalid room is detected before any work for it: no RT60 value is
\* computed or printed and image_source_method is not invoked for it.
C5_FailBeforeAnyWork ==
    (Executed("construct") /\ pc # "construct" /\ raised # "KeyError"
        /\ InvalidRoom(room_specs))
        => ~Executed("rt60") /\ ~Executed("print") /\ ~Executed("simulate")

\* C8: image_source_method raises EmptyConfiguration whenever source_positions or
\* receiver_positions is empty; no responses are returned, the plotting step is
\* never executed for that room, and what is plotted has a receiver 0 in every band.
C8_EmptyConfiguration ==
    /\ (Executed("simulate") /\
          (Len(room_specs.source_positions) = 0 \/ Len(room_specs.receiver_positions) = 0))
          => /\ raised = "EmptyConfiguration" /\ pc = "raised"
             /\ ~Executed("plot")
    /\ pc = "plot" => \A b \in DOMAIN responses : Len(responses[b]) > 0

C8_Witness ==
    /\ Executed("simulate")
    /\ Len(room_specs.receiver_positions) = 0
    /\ raised = "EmptyConfiguration"
    /\ room = 2

====
